---- MODULE Spec2Model ----
(***************************************************************************)
(* carderInfo-api (src/index_2.js): the two local validators (luhnCheck,   *)
(* isExpiryValid), the BIN lookup client (lookupBin) and the HTTP request  *)
(* handler, modelled as a state machine.                                   *)
(*                                                                         *)
(* A JavaScript string that the code reads character by character (a card  *)
(* number, a month, a year, a URL) is the sequence of its UTF-16 code      *)
(* units, each a number.  A JavaScript number that may be NaN is a record  *)
(* [nan, val].  A JSON value is a tagged record (see the JSON section).    *)
(***************************************************************************)
EXTENDS Integers, Sequences, FiniteSets, TLC

VARIABLES
    clock,      \* the system clock: [year, month], what new Date() reads
    luhn,       \* one call of luhnCheck: [arg, pc, ret]
    expiry,     \* one call of isExpiryValid: its arguments, position and locals
    pc,         \* where the request handler is: "idle", "isExpiryValid", "await",
                \* "done", or "threw" once it has thrown outside its try block
    request,    \* the incoming request: [method, url]
    response,   \* the handler's response object, NoResponse before it is built
    httpRes,    \* what was written to res: [heads, ends, statusCode, body]
    lookups,    \* how many outbound requests lookupBin has sent for this request
    promise,    \* the promise lookupBin returned
    upstream    \* the outbound request: which of its events have fired, and the first

handler == <<pc, request, response, httpRes, lookups, promise, upstream>>

vars == <<clock, luhn, expiry, pc, request, response, httpRes, lookups, promise, upstream>>

-----------------------------------------------------------------------------
(* Bounds of the model *)

\* longest card-number string drawn for a call of luhnCheck
MaxLen == 3
\* how many times the clock crosses a month boundary in one behaviour
MaxTicks == 3

-----------------------------------------------------------------------------
(* Characters and strings *)

\* the class \d: the code units of 0 to 9
Digits == 48..57

\* the class \s, which is also the white space parseInt skips: tab, line feed,
\* vertical tab, form feed, carriage return, space, no-break space, U+1680,
\* U+2000 to U+200A, the line and paragraph separators, U+202F, U+205F, U+3000
\* and U+FEFF
WhiteSpace ==
    {9, 10, 11, 12, 13, 32, 160, 5760} \cup (8192..8202)
        \cup {8232, 8233, 8239, 8287, 12288, 65279}

\* parseInt(c, 10) of one digit character
DigitValue(c) == c - 48

\* the code units of the characters the literals of the model are written with
Lower == <<"a", "b", "c", "d", "e", "f", "g", "h", "i", "j", "k", "l", "m",
           "n", "o", "p", "q", "r", "s", "t", "u", "v", "w", "x", "y", "z">>
CodeUnit(c) ==
    CASE c \in {"0", "1", "2", "3", "4", "5", "6", "7", "8", "9"} ->
             48 + (CHOOSE d \in 0..9 : ToString(d) = c)
      [] \E i \in 1..26 : Lower[i] = c -> 96 + (CHOOSE i \in 1..26 : Lower[i] = c)
      [] c = "\t" -> 9
      [] c = "\f" -> 12
      [] c = " " -> 32
      [] c = "%" -> 37
      [] c = "+" -> 43
      [] c = "-" -> 45
      [] c = "/" -> 47

\* the string written character by character
U(chars) == [i \in 1..Len(chars) |-> CodeUnit(chars[i])]

\* all strings over an alphabet of exactly n characters
StringsOfLen(chars, n) == [1..n -> chars]

\* all strings over an alphabet of at most n characters
StringsUpTo(chars, n) == UNION {StringsOfLen(chars, k) : k \in 0..n}

-----------------------------------------------------------------------------
(* luhnCheck *)

\* cardNumber.replace(/\s|-/g, '')
RemoveSpacesAndHyphens(cardNumber) ==
    SelectSeq(cardNumber, LAMBDA c : ~(c \in WhiteSpace \/ c = CodeUnit("-")))

\* /^\d+$/.test(s)
OnlyDigits(s) == Len(s) > 0 /\ \A i \in 1..Len(s) : s[i] \in Digits

\* the for loop: i runs from the last character down to the first
RECURSIVE LuhnLoop(_, _, _, _)
LuhnLoop(s, i, sum, double) ==
    IF i < 1 THEN sum
    ELSE LET d0 == DigitValue(s[i])
             d1 == IF double THEN 2 * d0 ELSE d0
             digit == IF double /\ d1 > 9 THEN d1 - 9 ELSE d1
         IN  LuhnLoop(s, i - 1, sum + digit, ~double)

\* the same loop with the doubling started one digit too early
luhnCheckDoubleFirst(cardNumber) ==
    LET cleanedCardNumber == RemoveSpacesAndHyphens(cardNumber)
    IN  IF ~OnlyDigits(cleanedCardNumber) THEN FALSE
        ELSE LuhnLoop(cleanedCardNumber, Len(cleanedCardNumber), 0, TRUE) % 10 = 0

luhnCheck(cardNumber) ==
    LET cleanedCardNumber == RemoveSpacesAndHyphens(cardNumber)
    IN  IF ~OnlyDigits(cleanedCardNumber) THEN FALSE
        ELSE LuhnLoop(cleanedCardNumber, Len(cleanedCardNumber), 0, FALSE) % 10 = 0

-----------------------------------------------------------------------------
(* parseInt and isExpiryValid *)

NaN == [nan |-> TRUE, val |-> 0]
Num(n) == [nan |-> FALSE, val |-> n]
isNaN(x) == x.nan

\* x + y on numbers that may be NaN
Plus(x, y) == IF x.nan \/ y.nan THEN NaN ELSE Num(x.val + y.val)

\* the decimal value of a string of digits, read left to right
RECURSIVE DecimalValue(_)
DecimalValue(s) ==
    IF Len(s) = 0 THEN 0
    ELSE 10 * DecimalValue(SubSeq(s, 1, Len(s) - 1)) + DigitValue(s[Len(s)])

\* the string without its leading white space
RECURSIVE TrimStart(_)
TrimStart(s) ==
    IF Len(s) > 0 /\ s[1] \in WhiteSpace THEN TrimStart(Tail(s)) ELSE s

\* the length of the longest prefix of digits
RECURSIVE DigitPrefixLen(_)
DigitPrefixLen(s) ==
    IF Len(s) > 0 /\ s[1] \in Digits THEN 1 + DigitPrefixLen(Tail(s)) ELSE 0

\* parseInt(string, 10): leading white space is skipped, a sign is read, the
\* digits up to the first character that is none are the value; NaN without any
parseInt(string) ==
    LET t == TrimStart(string)
        negative == Len(t) > 0 /\ t[1] = CodeUnit("-")
        signed == Len(t) > 0 /\ t[1] \in {CodeUnit("-"), CodeUnit("+")}
        body == IF signed THEN Tail(t) ELSE t
        n == DigitPrefixLen(body)
        magnitude == DecimalValue(SubSeq(body, 1, n))
    IN  IF n = 0 THEN NaN
        ELSE Num(IF negative THEN 0 - magnitude ELSE magnitude)

\* isExpiryValid with the month compared by <= where the code has <
isExpiryValidStrictMonth(month, year, currentYear, currentMonth) ==
    LET fullYear == IF Len(year) = 2 THEN Plus(Num(2000), parseInt(year))
                                     ELSE parseInt(year)
        monthInt == parseInt(month)
    IN  IF isNaN(monthInt) \/ isNaN(fullYear) \/ monthInt.val < 1 \/ monthInt.val > 12
        THEN FALSE
        ELSE IF fullYear.val < currentYear THEN FALSE
        ELSE IF fullYear.val = currentYear /\ monthInt.val <= currentMonth THEN FALSE
        ELSE TRUE

\* isExpiryValid(month, year); currentYear and currentMonth are what its two
\* new Date() read
isExpiryValid(month, year, currentYear, currentMonth) ==
    LET fullYear == IF Len(year) = 2 THEN Plus(Num(2000), parseInt(year))
                                     ELSE parseInt(year)
        monthInt == parseInt(month)
    IN  IF isNaN(monthInt) \/ isNaN(fullYear) \/ monthInt.val < 1 \/ monthInt.val > 12
        THEN FALSE
        ELSE IF fullYear.val < currentYear THEN FALSE
        ELSE IF fullYear.val = currentYear /\ monthInt.val < currentMonth THEN FALSE
        ELSE TRUE

-----------------------------------------------------------------------------
(* JavaScript values: what JSON.parse returns, and undefined *)

Undefined == [t |-> "undefined"]
Null == [t |-> "null"]
Bool(b) == [t |-> "boolean", b |-> b]
Number(n) == [t |-> "number", n |-> n]
\* a string: s is its text, or its UTF-16 code units where it is read as such
Str(s) == [t |-> "string", s |-> s]
\* an object: o is a function from its own property names to their values
Obj(o) == [t |-> "object", o |-> o]

EmptyObject == Obj([k \in {} |-> Undefined])

\* reading a property of null or undefined throws a TypeError
ReadThrows(v) == v.t \in {"null", "undefined"}

\* v.key, for a v that is neither null nor undefined
Get(v, key) ==
    IF v.t = "object" /\ key \in DOMAIN v.o THEN v.o[key]
    ELSE IF v.t = "string" /\ key = "length" THEN Number(Len(v.s))
    ELSE Undefined

\* ToBoolean(v)
Truthy(v) ==
    CASE v.t = "undefined" -> FALSE
      [] v.t = "null" -> FALSE
      [] v.t = "boolean" -> v.b
      [] v.t = "number" -> v.n # 0
      [] v.t = "string" -> Len(v.s) # 0
      [] v.t = "object" -> TRUE

\* a || b
OrElse(a, b) == IF Truthy(a) THEN a ELSE b

\* c ? a : b
Cond(c, a, b) == IF Truthy(c) THEN a ELSE b

-----------------------------------------------------------------------------
(* The response and its card_info *)

API_METADATA == [author |-> "Sam", contact |-> "t.me/samblackhat",
                 version |-> "1.0.1-enriched"]

NA == Str("N/A")
Sim == Str("Sim")
Nao == Str("Não")

MsgStarted == "Processamento iniciado."
MsgLuhnFailed == "Falha na validação estrutural do número do cartão (Algoritmo de Luhn)."
MsgExpiryFailed == "Falha na validação da data de expiração (cartão expirado ou data inválida)."
MsgSuccess == "Validação e consulta concluídas com sucesso."
MsgInternal == "Erro interno do servidor durante a consulta externa."
MsgParse == "Erro ao analisar a resposta da BIN List"
MsgBinNotFound == "BIN não encontrado na base de dados."
MsgTransport == "Erro na requisição HTTP para a BIN List"
MsgUpstreamStatus == "Erro na consulta à BIN List: Status "
MsgNotFound == "Endpoint não encontrado. Use o formato: /cardinfo/:bin/:card_number/:expiry_month/:expiry_year"
UsageExample == "/cardinfo/457173/4571736000000000/12/28"

\* the object literal assigned to response.card_info, for a binData that is
\* neither null nor undefined
CardInfo(binData) ==
    LET number == Get(binData, "number")
        country == Get(binData, "country")
        bank == Get(binData, "bank")
    IN  [scheme |-> OrElse(Get(binData, "scheme"), NA),
         brand |-> OrElse(Get(binData, "brand"), NA),
         type |-> OrElse(Get(binData, "type"), NA),
         prepaid |-> IF Get(binData, "prepaid") = Bool(TRUE) THEN Sim ELSE Nao,
         number_details |->
            [length |-> IF Truthy(number) THEN Get(number, "length") ELSE NA,
             luhn_check_status |->
                IF Truthy(number) THEN Cond(Get(number, "luhn"), Sim, Nao) ELSE NA],
         country |->
            [name |-> IF Truthy(country) THEN Get(country, "name") ELSE NA,
             alpha2 |-> IF Truthy(country) THEN Get(country, "alpha2") ELSE NA,
             numeric |-> IF Truthy(country) THEN Get(country, "numeric") ELSE NA,
             currency |-> IF Truthy(country) THEN Get(country, "currency") ELSE NA,
             emoji |-> IF Truthy(country) THEN Get(country, "emoji") ELSE NA,
             coordinates |->
                [latitude |-> IF Truthy(country) THEN Get(country, "latitude") ELSE NA,
                 longitude |-> IF Truthy(country) THEN Get(country, "longitude") ELSE NA]],
         bank |->
            [name |-> IF Truthy(bank) THEN Get(bank, "name") ELSE NA,
             url |-> IF Truthy(bank) THEN Get(bank, "url") ELSE NA,
             phone_sac |-> IF Truthy(bank) THEN Get(bank, "phone") ELSE NA,
             city |-> IF Truthy(bank) THEN Get(bank, "city") ELSE NA]]

\* the leaves of a card_info object, by their path
CardInfoLeaves(ci) ==
    [p \in {"scheme", "brand", "type", "prepaid",
            "number_details.length", "number_details.luhn_check_status",
            "country.name", "country.alpha2", "country.numeric", "country.currency",
            "country.emoji", "country.coordinates.latitude",
            "country.coordinates.longitude",
            "bank.name", "bank.url", "bank.phone_sac", "bank.city"} |->
        CASE p = "scheme" -> ci.scheme
          [] p = "brand" -> ci.brand
          [] p = "type" -> ci.type
          [] p = "prepaid" -> ci.prepaid
          [] p = "number_details.length" -> ci.number_details.length
          [] p = "number_details.luhn_check_status" -> ci.number_details.luhn_check_status
          [] p = "country.name" -> ci.country.name
          [] p = "country.alpha2" -> ci.country.alpha2
          [] p = "country.numeric" -> ci.country.numeric
          [] p = "country.currency" -> ci.country.currency
          [] p = "country.emoji" -> ci.country.emoji
          [] p = "country.coordinates.latitude" -> ci.country.coordinates.latitude
          [] p = "country.coordinates.longitude" -> ci.country.coordinates.longitude
          [] p = "bank.name" -> ci.bank.name
          [] p = "bank.url" -> ci.bank.url
          [] p = "bank.phone_sac" -> ci.bank.phone_sac
          [] p = "bank.city" -> ci.bank.city]

\* JSON.stringify of a card_info object, as the leaves the text holds: a
\* property whose value is undefined is left out of the text
StringifyCardInfo(ci) ==
    LET leaves == CardInfoLeaves(ci)
    IN  [p \in {q \in DOMAIN leaves : leaves[q] # Undefined} |-> leaves[p]]

\* JSON.stringify(response): card_info is null or the text of the object
Stringify(resp) ==
    [resp EXCEPT
        !.card_info = IF resp.card_info = Null THEN Null
                      ELSE StringifyCardInfo(resp.card_info)]

\* the body of the 404 of an unknown route
NotFoundBody == [status |-> "error", message |-> MsgNotFound, example |-> UsageExample]

-----------------------------------------------------------------------------
(* lookupBin: the promise and the two callbacks that settle it *)

NoPromise == [state |-> "none", value |-> Undefined]
Pending == [state |-> "pending", value |-> Undefined]

\* resolve(v) and reject(e) of a promise: only the first call settles it
Resolve(p, v) == IF p.state = "pending" THEN [state |-> "fulfilled", value |-> v] ELSE p
Reject(p, e) == IF p.state = "pending" THEN [state |-> "rejected", value |-> e] ELSE p

\* a response text JSON.parse throws on
Unparseable == [t |-> "unparseable"]

\* the decimal digits of a status code, for the template string
StatusText(statusCode) ==
    CASE statusCode = 200 -> "200"
      [] statusCode = 404 -> "404"
      [] statusCode = 429 -> "429"
      [] statusCode = 500 -> "500"

\* res.on('end'): data is the parsed text of the reply, or Unparseable.  The
\* details property of a rejection is only logged and is left out
OnEnd(p, statusCode, data) ==
    IF statusCode = 200
    THEN IF data # Unparseable THEN Resolve(p, data)
         ELSE Reject(p, Obj([k \in {"error"} |-> Str(MsgParse)]))
    ELSE IF statusCode = 404
    THEN Reject(p, Obj([k \in {"error", "status"} |->
                            IF k = "error" THEN Str(MsgBinNotFound) ELSE Number(404)]))
    ELSE Reject(p, Obj([k \in {"error"} |->
                            Str(MsgUpstreamStatus \o StatusText(statusCode))]))

\* req.on('error')
OnError(p) == Reject(p, Obj([k \in {"error"} |-> Str(MsgTransport)]))

-----------------------------------------------------------------------------
(* The system clock *)

\* the instant the model starts at
StartClock == [year |-> 2026, month |-> 11]

\* the instant one month after c
NextMonth(c) == IF c.month = 12 THEN [year |-> c.year + 1, month |-> 1]
                ELSE [year |-> c.year, month |-> c.month + 1]

\* months from StartClock to c
MonthsSinceStart(c) == 12 * (c.year - StartClock.year) + c.month - StartClock.month

\* the clock crosses a month boundary
Tick ==
    /\ MonthsSinceStart(clock) < MaxTicks
    /\ clock' = NextMonth(clock)
    /\ UNCHANGED <<luhn, expiry, handler>>

-----------------------------------------------------------------------------
(* Calls of luhnCheck *)

\* the digits, the space, the hyphen, the letter a and, of the white space that
\* is no space, the tab, the form feed, the no-break space and U+2028
LuhnChars == Digits \cup {CodeUnit(" "), CodeUnit("-"), CodeUnit("a"), 9, 12, 160, 8232}

ValidCard == U(<<"4","5","7","1","7","3","6","0","0","0","0","0","0","0","0","0">>)
InvalidCard == U(<<"4","5","7","1","7","3","6","0","0","0","0","0","0","0","0","1">>)
SpacedCard ==
    U(<<"4","5","7","1"," ","7","3","6","0","-","0","0","0","0"," ","0","0","0","0">>)

LuhnInputs == StringsUpTo(LuhnChars, MaxLen) \cup {ValidCard, InvalidCard, SpacedCard}

LuhnIdle == [arg |-> <<>>, pc |-> "idle", ret |-> FALSE]

LuhnCall ==
    /\ luhn.pc = "called"
    /\ luhn' = [luhn EXCEPT !.pc = "returned", !.ret = luhnCheck(luhn.arg)]
    /\ UNCHANGED <<clock, expiry, handler>>

-----------------------------------------------------------------------------
(* Calls of isExpiryValid *)

MonthChars == {CodeUnit(c) : c \in {"0", "1", "2", "3", "-", "a", "\f"}}
YearChars == {CodeUnit(c) : c \in {"0", "2", "6", "7"}}

MonthStrings == StringsOfLen(MonthChars, 1) \cup StringsOfLen(MonthChars, 2)
YearStrings ==
    StringsOfLen(YearChars, 2) \cup StringsOfLen(YearChars, 4)
        \cup {U(<<"2">>), U(<<"2", "0", "2">>), U(<<"2", "a">>), U(<<"a", "b">>),
              U(<<"-", "1">>)}

ExpiryIdle ==
    [month |-> <<>>, year |-> <<>>, pc |-> "idle", currentYear |-> 0,
     yearAt |-> StartClock, monthAt |-> StartClock, ret |-> FALSE]

\* the call after const currentYear = new Date().getFullYear();
YearRead(call, now) ==
    [call EXCEPT !.pc = "yearRead", !.currentYear = now.year, !.yearAt = now]

\* the call after const currentMonth = new Date().getMonth() + 1; and the rest
\* of the function
Returned(call, now) ==
    [call EXCEPT !.pc = "returned", !.monthAt = now,
                 !.ret = isExpiryValid(call.month, call.year, call.currentYear, now.month)]

ExpiryReadYear ==
    /\ expiry.pc = "called"
    /\ pc = "idle"
    /\ expiry' = YearRead(expiry, clock)
    /\ UNCHANGED <<clock, luhn, handler>>

ExpiryReturn ==
    /\ expiry.pc = "yearRead"
    /\ pc = "idle"
    /\ expiry' = Returned(expiry, clock)
    /\ UNCHANGED <<clock, luhn, handler>>

-----------------------------------------------------------------------------
(* The request handler *)

CARDINFO == U(<<"c", "a", "r", "d", "i", "n", "f", "o">>)

\* req.url is [authority, rest]: rest is the text from the path on, and
\* authority tells what stands before it:
\*   "none"     nothing, the origin form (/cardinfo/...)
\*   "http"     http://localhost:3000, a scheme url.parse follows with slashes
\*              and a host name
\*   "ipv6"     http://[::1], the same scheme and an IPv6 host
\*   "foo"      foo://h, a scheme that is none of http, https, ftp, gopher,
\*              file, ws, wss
\*   "invalid"  http://[::1, a host url.parse throws ERR_INVALID_URL for
\* The text is taken to hold no '@' and no ':', and after a host to be empty
\* or to start with a character that ends the host: '/', '?', '#' or a space.

\* url.parse throws for the URL
UrlParseThrows(u) == u.authority = "invalid"

\* what url.parse trims from both ends: code units below 33, the no-break
\* space and U+FEFF
UrlWhiteSpace == (0..32) \cup {160, 65279}

\* the text without the white space at its start
RECURSIVE UrlTrimStart(_)
UrlTrimStart(s) ==
    IF Len(s) > 0 /\ s[1] \in UrlWhiteSpace THEN UrlTrimStart(Tail(s)) ELSE s

\* the text without the white space at its end
RECURSIVE UrlTrimEnd(_)
UrlTrimEnd(s) ==
    IF Len(s) > 0 /\ s[Len(s)] \in UrlWhiteSpace THEN UrlTrimEnd(SubSeq(s, 1, Len(s) - 1))
    ELSE s

\* the trimming is of the whole URL: the text from the path on loses the white
\* space at its start only when nothing stands before it
UrlTrim(u) ==
    IF u.authority = "none" THEN UrlTrimStart(UrlTrimEnd(u.rest)) ELSE UrlTrimEnd(u.rest)

\* the index of the first character of s that is in chars, Len(s) + 1 without
FirstIndexOf(s, chars) ==
    IF \E i \in 1..Len(s) : s[i] \in chars
    THEN CHOOSE i \in 1..Len(s) : s[i] \in chars /\ \A j \in 1..(i - 1) : s[j] \notin chars
    ELSE Len(s) + 1

\* the backslashes before the first '?' or '#' become slashes
BackslashesToSlashes(s) ==
    [i \in 1..Len(s) |-> IF s[i] = 92 /\ i < FirstIndexOf(s, {63, 35}) THEN 47 ELSE s[i]]

\* after a host url.parse deletes every tab, line feed and carriage return that
\* stands before the first '/', '?' or '#'
RemoveTabsAndNewlines(s) ==
    LET hostEnd == FirstIndexOf(s, {47, 63, 35})
        kept == {i \in 1..Len(s) : ~(s[i] \in {9, 10, 13} /\ i < hostEnd)}
        RECURSIVE From(_)
        From(i) == IF i > Len(s) THEN <<>>
                   ELSE (IF i \in kept THEN <<s[i]>> ELSE <<>>) \o From(i + 1)
    IN  From(1)

\* the characters url.parse escapes: tab, line feed, carriage return, space,
\* " ' < > \ ^ ` { | }
AutoEscape == {9, 10, 13, 32, 34, 39, 60, 62, 92, 94, 96, 123, 124, 125}

\* the upper-case hexadecimal digit of n
HexDigit(n) == IF n < 10 THEN 48 + n ELSE 55 + n

\* autoEscapeStr: each character of AutoEscape becomes % and its two
\* hexadecimal digits
RECURSIVE AutoEscapeStr(_)
AutoEscapeStr(s) ==
    IF Len(s) = 0 THEN <<>>
    ELSE (IF s[1] \in AutoEscape THEN <<37, HexDigit(s[1] \div 16), HexDigit(s[1] % 16)>>
          ELSE <<s[1]>>) \o AutoEscapeStr(Tail(s))

\* the fast path: simplePathPattern, /^(\/\/?(?!\/)[^?\s]*)(\?[^\s]*)?$/,
\* matches a URL that had no '#': one or two slashes, then no white space
SimplePath(rest) ==
    /\ Len(rest) > 0 /\ rest[1] = 47
    /\ ~(Len(rest) > 2 /\ rest[2] = 47 /\ rest[3] = 47)
    /\ \A i \in 1..Len(rest) : rest[i] \notin WhiteSpace /\ rest[i] # 35

\* url.parse(req.url, true).pathname of a URL url.parse does not throw for:
\* the URL is trimmed; after a host the tabs and line breaks before the path
\* are deleted, and after an IPv6 host a slash is put before a text that does
\* not start with one; a simple path is taken as it stands, any other is
\* escaped; the pathname ends before the first '?' or '#'; when nothing is
\* left it is '/' after the host of an http URL and null otherwise
Pathname(u) ==
    LET trimmed == BackslashesToSlashes(UrlTrim(u))
        afterHost == IF u.authority = "none" THEN trimmed
                     ELSE RemoveTabsAndNewlines(trimmed)
        rest == IF u.authority = "ipv6" /\ (Len(afterHost) = 0 \/ afterHost[1] # 47)
                THEN <<47>> \o afterHost
                ELSE afterHost
        simple == u.authority = "none" /\ SimplePath(rest)
        escaped == IF simple THEN rest ELSE AutoEscapeStr(rest)
        path == SubSeq(escaped, 1, FirstIndexOf(escaped, {63, 35}) - 1)
    IN  IF Len(path) > 0 THEN [null |-> FALSE, s |-> path]
        ELSE IF u.authority \in {"http", "ipv6"} THEN [null |-> FALSE, s |-> <<47>>]
        ELSE [null |-> TRUE, s |-> <<>>]

\* s.split('/')
RECURSIVE Split(_)
Split(s) ==
    LET i == FirstIndexOf(s, {47})
    IN  IF i > Len(s) THEN <<s>>
        ELSE <<SubSeq(s, 1, i - 1)>> \o Split(SubSeq(s, i + 1, Len(s)))

\* pathname.split('/').filter(segment => segment.length > 0)
PathSegments(pathname) == SelectSeq(Split(pathname), LAMBDA segment : Len(segment) > 0)

\* req.method === 'GET' && pathSegments[0] === 'cardinfo' && pathSegments.length === 5
IsCardQuery(method, pathSegments) ==
    /\ method = "GET"
    /\ Len(pathSegments) > 0 /\ pathSegments[1] = CARDINFO
    /\ Len(pathSegments) = 5

\* a validation stage that forgets the expiry check
NextStageLuhnOnly(validation) ==
    IF ~validation.luhn_valid THEN "badLuhn" ELSE "lookup"

\* the two if statements after the validation: which way the handler goes
NextStage(validation) ==
    IF ~validation.luhn_valid THEN "badLuhn"
    ELSE IF ~validation.expiry_valid THEN "badExpiry"
    ELSE "lookup"

NoResponse == [none |-> TRUE]
NoRequest == [method |-> "", url |-> [authority |-> "none", rest |-> <<>>]]
NothingWritten == [heads |-> 0, ends |-> 0, statusCode |-> 0, body |-> NoResponse]
NoUpstream == [endFired |-> FALSE, errorFired |-> FALSE, first |-> [event |-> "none"]]

\* res.writeHead(statusCode, ...); res.end(body)
Write(res, statusCode, body) ==
    [heads |-> res.heads + 1, ends |-> res.ends + 1, statusCode |-> statusCode,
     body |-> body]

Methods == {"GET", "POST"}

Bin == U(<<"4", "5", "7", "1", "7", "3">>)
Foo == U(<<"f", "o", "o">>)
Empty == <<>>
December == U(<<"1", "2">>)
Year2027 == U(<<"2", "0", "2", "7">>)

\* the card number with spaces as a client has to send it
EscapedCard ==
    U(<<"4","5","7","1","%","2","0","7","3","6","0","-","0","0","0","0","%","2","0",
        "0","0","0","0">>)

QueryCards == {ValidCard, InvalidCard, SpacedCard, EscapedCard}
QueryMonths == {December, U(<<"0", "2">>), U(<<"1", "3">>)}
QueryYears == {U(<<"2", "6">>), Year2027, U(<<"2", "0">>)}

\* the path with the given segments, a slash before each
RECURSIVE PathOf(_)
PathOf(segments) ==
    IF Len(segments) = 0 THEN <<>>
    ELSE <<47>> \o Head(segments) \o PathOf(Tail(segments))

ExamplePath == PathOf(<<CARDINFO, Bin, ValidCard, December, Year2027>>)

\* the URLs the model draws
Urls ==
    {[authority |-> "none", rest |-> PathOf(<<CARDINFO, Bin, c, m, y>>)] :
        c \in QueryCards, m \in QueryMonths, y \in QueryYears}
    \cup {[authority |-> "none", rest |-> r] :
            r \in {PathOf(<<CARDINFO, Empty, Bin, ValidCard, December, Year2027, Empty>>),
                   ExamplePath \o <<63, 120>>,
                   PathOf(<<CARDINFO, Bin, ValidCard, December \o <<39>>, Year2027>>)
                       \o <<63, 97, 63, 98>>,
                   ExamplePath \o <<32>>,
                   <<47>>,
                   PathOf(<<Foo>>),
                   PathOf(<<CARDINFO>>),
                   PathOf(<<CARDINFO, Bin, ValidCard, December>>),
                   PathOf(<<CARDINFO, Bin, ValidCard, December, Year2027, Foo>>),
                   PathOf(<<Foo, Bin, ValidCard, December, Year2027>>),
                   PathOf(<<Bin, CARDINFO, ValidCard, December, Year2027>>)}}
    \cup {[authority |-> "none",
           rest |-> PathOf(<<CARDINFO, b, ValidCard, December, Year2027>>)] :
            b \in {<<1>>, <<8364>>}}
    \cup {[authority |-> a, rest |-> r] :
            a \in {"http", "invalid"},
            r \in {ExamplePath, <<32>> \o ExamplePath, <<32, 9>> \o ExamplePath,
                   PathOf(<<CARDINFO>>), <<>>}}
    \cup {[authority |-> "foo", rest |-> r] : r \in {<<>>, <<63, 120>>, PathOf(<<CARDINFO>>)}}
    \cup {[authority |-> "ipv6", rest |-> r] : r \in {<<32, 47>>, PathOf(<<CARDINFO>>)}}

\* the handler up to the first new Date() of isExpiryValid, or through the 404
\* of an unknown route, or up to the error url.parse or the split of a null
\* pathname throws: nothing catches it, nothing is written and the process ends
Receive(method, reqUrl) ==
    /\ pc = "idle"
    /\ request' = [method |-> method, url |-> reqUrl]
    /\ lookups' = 0
    /\ promise' = NoPromise
    /\ upstream' = NoUpstream
    /\ IF UrlParseThrows(reqUrl) \/ Pathname(reqUrl).null
       THEN /\ response' = NoResponse
            /\ expiry' = ExpiryIdle
            /\ httpRes' = NothingWritten
            /\ pc' = "threw"
       ELSE LET pathSegments == PathSegments(Pathname(reqUrl).s)
            IN  IF IsCardQuery(method, pathSegments)
                THEN /\ response' =
                          [metadata |-> API_METADATA,
                           request |-> [bin |-> pathSegments[2],
                                        cardNumber |-> pathSegments[3],
                                        expiryMonth |-> pathSegments[4],
                                        expiryYear |-> pathSegments[5]],
                           validation |-> [k \in {"luhn_valid"} |->
                                               luhnCheck(pathSegments[3])],
                           card_info |-> Null,
                           status |-> "error",
                           message |-> MsgStarted]
                     /\ expiry' = YearRead([ExpiryIdle EXCEPT !.month = pathSegments[4],
                                                              !.year = pathSegments[5]],
                                           clock)
                     /\ httpRes' = NothingWritten
                     /\ pc' = "isExpiryValid"
                ELSE /\ response' = NoResponse
                     /\ expiry' = ExpiryIdle
                     /\ httpRes' = Write(NothingWritten, 404, NotFoundBody)
                     /\ pc' = "done"
    /\ UNCHANGED <<clock, luhn>>

\* https.request throws ERR_UNESCAPED_CHARACTERS for a path with a character
\* outside U+0021 to U+00FF
UnescapedCharacters(path) == \E i \in 1..Len(path) : path[i] \notin 33..255

\* the TypeError https.request throws then
ERR_UNESCAPED_CHARACTERS ==
    Obj([k \in {"message"} |-> Str("Request path contains unescaped characters")])

\* the handler from the second new Date() of isExpiryValid to the await, or
\* through the 400 of a failed validation; when https.request throws in the
\* executor of lookupBin, the promise is rejected and no request is sent
Validate ==
    /\ pc = "isExpiryValid"
    /\ LET call == Returned(expiry, clock)
           validated ==
               [response EXCEPT
                   !.validation = [k \in {"luhn_valid", "expiry_valid"} |->
                                       IF k = "luhn_valid" THEN response.validation.luhn_valid
                                       ELSE call.ret]]
           stage == NextStage(validated.validation)
       IN  /\ expiry' = call
           /\ IF stage = "badLuhn"
              THEN /\ response' = [validated EXCEPT !.message = MsgLuhnFailed]
                   /\ httpRes' = Write(httpRes, 400, Stringify(response'))
                   /\ pc' = "done"
                   /\ UNCHANGED <<lookups, promise>>
              ELSE IF stage = "badExpiry"
              THEN /\ response' = [validated EXCEPT !.message = MsgExpiryFailed]
                   /\ httpRes' = Write(httpRes, 400, Stringify(response'))
                   /\ pc' = "done"
                   /\ UNCHANGED <<lookups, promise>>
              ELSE IF UnescapedCharacters(<<47>> \o response.request.bin)
              THEN /\ response' = validated
                   /\ promise' = Reject(Pending, ERR_UNESCAPED_CHARACTERS)
                   /\ pc' = "await"
                   /\ UNCHANGED <<httpRes, lookups>>
              ELSE /\ response' = validated
                   /\ lookups' = lookups + 1
                   /\ promise' = Pending
                   /\ pc' = "await"
                   /\ UNCHANGED httpRes
    /\ UNCHANGED <<clock, luhn, request, upstream>>

StatusCodes == {200, 404, 429, 500}

\* the country of the README's example; the emoji is the flag of Denmark,
\* U+1F1E9 U+1F1F0, as its four UTF-16 code units
DenmarkCountry ==
    Obj([k \in {"name", "alpha2", "numeric", "currency", "emoji", "latitude", "longitude"} |->
            CASE k = "name" -> Str("Denmark")
              [] k = "alpha2" -> Str("DK")
              [] k = "numeric" -> Str("208")
              [] k = "currency" -> Str("DKK")
              [] k = "emoji" -> Str(<<55356, 56809, 55356, 56816>>)
              [] k = "latitude" -> Number(56)
              [] k = "longitude" -> Number(10)])
JyskeBank ==
    Obj([k \in {"name", "url", "phone", "city"} |->
            CASE k = "name" -> Str("Jyske Bank A/S")
              [] k = "url" -> Str("www.jyskebank.dk")
              [] k = "phone" -> Str("+4589893300")
              [] k = "city" -> Str("Hjørring")])
VisaNumber ==
    Obj([k \in {"length", "luhn"} |-> IF k = "length" THEN Number(16) ELSE Bool(TRUE)])

\* binData of the README's example
Example ==
    Obj([k \in {"scheme", "brand", "type", "prepaid", "number", "country", "bank"} |->
            CASE k = "scheme" -> Str("visa")
              [] k = "brand" -> Str("Visa Classic/Dankort")
              [] k = "type" -> Str("debit")
              [] k = "prepaid" -> Bool(FALSE)
              [] k = "number" -> VisaNumber
              [] k = "country" -> DenmarkCountry
              [] k = "bank" -> JyskeBank])

\* the object v without its property k
Without(v, k) == Obj([n \in DOMAIN v.o \ {k} |-> v.o[n]])

\* the object v with its property k set to x
With(v, k, x) == Obj([n \in DOMAIN v.o \cup {k} |-> IF n = k THEN x ELSE v.o[n]])

\* what JSON.parse gives for the reply texts the model draws, and Unparseable
Replies ==
    {Example}
    \cup {Without(Example, k) : k \in DOMAIN Example.o}
    \cup {With(Example, "prepaid", Bool(TRUE)),
          With(Example, "number", EmptyObject),
          With(Example, "country", Obj([n \in {"name"} |-> Str("Denmark")])),
          With(Example, "bank", Obj([n \in {"name"} |-> Null])),
          EmptyObject, Null, Number(5), Str("visa"), Unparseable}

\* the 'end' event of the outbound reply
UpstreamEnd(statusCode, data) ==
    /\ lookups > 0
    /\ ~upstream.endFired
    /\ upstream' = [upstream EXCEPT
                      !.endFired = TRUE,
                      !.first = IF upstream.first.event = "none"
                                THEN [event |-> "end", statusCode |-> statusCode, data |-> data]
                                ELSE upstream.first]
    /\ promise' = OnEnd(promise, statusCode, data)
    /\ UNCHANGED <<clock, luhn, expiry, pc, request, response, httpRes, lookups>>

\* the 'error' event of the outbound request
UpstreamError ==
    /\ lookups > 0
    /\ ~upstream.errorFired
    /\ upstream' = [upstream EXCEPT
                      !.errorFired = TRUE,
                      !.first = IF upstream.first.event = "none"
                                THEN [event |-> "error"]
                                ELSE upstream.first]
    /\ promise' = OnError(promise)
    /\ UNCHANGED <<clock, luhn, expiry, pc, request, response, httpRes, lookups>>

\* the catch block, for the value e thrown or rejected with
Catch(resp, res, e) ==
    LET caught == [resp EXCEPT !.message = OrElse(Get(e, "error"), Str(MsgInternal)).s]
        statusCode == OrElse(Get(e, "status"), Number(500)).n
    IN  [response |-> caught, httpRes |-> Write(res, statusCode, Stringify(caught))]

\* the TypeError a read of a property of null throws
TypeError == Obj([k \in {"message"} |-> Str("Cannot read properties of null")])

\* the handler from the await to its end: the try block, then the catch block
\* when the promise was rejected or the try block threw
Resume ==
    /\ pc = "await"
    /\ promise.state \in {"fulfilled", "rejected"}
    /\ LET binData == promise.value
           started == [response EXCEPT !.status = "success", !.message = MsgSuccess]
           filled == [started EXCEPT !.card_info = CardInfo(binData)]
           outcome ==
               IF promise.state = "rejected" THEN Catch(response, httpRes, promise.value)
               ELSE IF ReadThrows(binData) THEN Catch(started, httpRes, TypeError)
               ELSE [response |-> filled, httpRes |-> Write(httpRes, 200, Stringify(filled))]
       IN  /\ response' = outcome.response
           /\ httpRes' = outcome.httpRes
    /\ pc' = "done"
    /\ UNCHANGED <<clock, luhn, expiry, request, lookups, promise, upstream>>

-----------------------------------------------------------------------------
(* Specifications *)

HandlerIdle ==
    /\ pc = "idle"
    /\ request = NoRequest
    /\ response = NoResponse
    /\ httpRes = NothingWritten
    /\ lookups = 0
    /\ promise = NoPromise
    /\ upstream = NoUpstream

Init ==
    /\ clock = StartClock
    /\ luhn = LuhnIdle
    /\ expiry = ExpiryIdle
    /\ HandlerIdle

Next ==
    \/ \E method \in Methods, reqUrl \in Urls : Receive(method, reqUrl)
    \/ Tick
    \/ Validate
    \/ \E statusCode \in StatusCodes, data \in Replies : UpstreamEnd(statusCode, data)
    \/ UpstreamError
    \/ Resume

Spec == Init /\ [][Next]_vars

\* the handler runs whenever it can: the event loop runs a ready callback.
\* Nothing makes the outbound request end or fail: lookupBin sets no time limit
FairSpec ==
    /\ Spec
    /\ WF_vars(Validate)
    /\ WF_vars(Resume)

LuhnInit ==
    /\ clock = StartClock
    /\ luhn \in {[arg |-> s, pc |-> "called", ret |-> FALSE] : s \in LuhnInputs}
    /\ expiry = ExpiryIdle
    /\ HandlerIdle

LuhnNext == LuhnCall

LuhnSpec == LuhnInit /\ [][LuhnNext]_vars

ExpiryInit ==
    /\ clock = StartClock
    /\ luhn = LuhnIdle
    /\ expiry \in {[ExpiryIdle EXCEPT !.month = m, !.year = y, !.pc = "called"] :
                        m \in MonthStrings, y \in YearStrings}
    /\ HandlerIdle

ExpiryNext == ExpiryReadYear \/ Tick \/ ExpiryReturn

ExpirySpec == ExpiryInit /\ [][ExpiryNext]_vars

-----------------------------------------------------------------------------
(* Properties of luhnCheck (LuhnSpec) *)

\* a non-empty string of decimal digits
DecimalDigitString(s) ==
    Len(s) > 0 /\ \A i \in 1..Len(s) : \E d \in 0..9 : s[i] = CodeUnit(ToString(d))

\* what the k-th digit from the right adds to the mod-10 sum: the digit itself
\* at odd k, twice the digit less 9 when that exceeds 9 at even k
Mod10Term(s, k) ==
    LET d == CHOOSE v \in 0..9 : s[Len(s) - k + 1] = CodeUnit(ToString(v))
    IN  IF k % 2 = 1 THEN d ELSE IF 2 * d > 9 THEN 2 * d - 9 ELSE 2 * d

\* the mod-10 sum of the k rightmost digits
RECURSIVE Mod10Sum(_, _)
Mod10Sum(s, k) == IF k = 0 THEN 0 ELSE Mod10Sum(s, k - 1) + Mod10Term(s, k)

\* C1: for every non-empty string of decimal digits luhnCheck returns true iff
\* the standard mod-10 sum (from the right, every second digit doubled, 9
\* subtracted from a doubled digit above 9) is divisible by 10; 4571736000000000
\* is valid and 4571736000000001 is not
C1_LuhnIsMod10 ==
    luhn.pc = "returned" =>
        /\ DecimalDigitString(luhn.arg) =>
               (luhn.ret <=> Mod10Sum(luhn.arg, Len(luhn.arg)) % 10 = 0)
        /\ luhn.arg = ValidCard => luhn.ret = TRUE
        /\ luhn.arg = InvalidCard => luhn.ret = FALSE

\* luhnCheck has returned true for a digit string with a doubled digit above 9
C1_Witness ==
    /\ luhn.pc = "returned"
    /\ luhn.arg = U(<<"5", "9">>)
    /\ luhn.ret = TRUE

\* the string with its spaces and hyphens, and nothing else, removed
WithoutSpacesAndHyphens(s) ==
    SelectSeq(s, LAMBDA c : c \notin {CodeUnit(" "), CodeUnit("-")})

\* C2: luhnCheck returns false whenever the string left after removing only
\* spaces and hyphens is not a non-empty sequence of decimal digits
C2_NonDigitIsInvalid ==
    (luhn.pc = "returned" /\ ~DecimalDigitString(WithoutSpacesAndHyphens(luhn.arg)))
        => luhn.ret = FALSE

-----------------------------------------------------------------------------
(* Properties of isExpiryValid (ExpirySpec) *)

\* the value of a string of digits, digit i weighing 10^(Len - i)
PositionalValue(s) ==
    LET RECURSIVE Pow10(_)
        Pow10(e) == IF e = 0 THEN 1 ELSE 10 * Pow10(e - 1)
        RECURSIVE Upto(_)
        Upto(i) == IF i = 0 THEN 0
                   ELSE Upto(i - 1)
                        + (CHOOSE v \in 0..9 : s[i] = CodeUnit(ToString(v))) * Pow10(Len(s) - i)
    IN  Upto(Len(s))

\* the string is an integer numeral: digits, or a minus sign and digits
DenotesInteger(s) ==
    \/ DecimalDigitString(s)
    \/ Len(s) > 1 /\ s[1] = CodeUnit("-") /\ DecimalDigitString(Tail(s))

\* the integer the numeral denotes
IntegerDenoted(s) ==
    IF s[1] = CodeUnit("-") THEN 0 - PositionalValue(Tail(s)) ELSE PositionalValue(s)

\* a year string of 2 or 4 digits
TwoOrFourDigits(s) == Len(s) \in {2, 4} /\ DecimalDigitString(s)

\* the year a 2- or 4-digit year string resolves to
ResolvedYear(s) == IF Len(s) = 2 THEN 2000 + PositionalValue(s) ELSE PositionalValue(s)

\* the expiry rule for month m of year fy at the instant month M of year Y
ExpiryRule(m, fy, Y, M) ==
    /\ 1 <= m
    /\ m <= 12
    /\ (fy > Y \/ (fy = Y /\ m >= M))

\* C3: with the clock fixed at year Y and month M, for a month string denoting
\* m and a year string of 2 or 4 digits resolving to fy, isExpiryValid returns
\* true iff 1 <= m <= 12 and (fy > Y or (fy = Y and m >= M))
C3_ExpiryRuleAtFixedClock ==
    (/\ expiry.pc = "returned"
     /\ expiry.yearAt = expiry.monthAt
     /\ DenotesInteger(expiry.month)
     /\ TwoOrFourDigits(expiry.year))
        => (expiry.ret <=> ExpiryRule(IntegerDenoted(expiry.month),
                                      ResolvedYear(expiry.year),
                                      expiry.yearAt.year, expiry.yearAt.month))

\* isExpiryValid has returned true for exactly the current month and year
C3_Witness ==
    /\ expiry.pc = "returned"
    /\ expiry.yearAt = [year |-> 2026, month |-> 12]
    /\ expiry.monthAt = expiry.yearAt
    /\ expiry.month = U(<<"1", "2">>)
    /\ expiry.year = U(<<"2", "6">>)
    /\ expiry.ret = TRUE

\* the instants the clock showed from the first read of a call to the second
InstantsOfCall ==
    {c \in [year : {expiry.yearAt.year, expiry.monthAt.year}, month : 1..12] :
        /\ MonthsSinceStart(expiry.yearAt) <= MonthsSinceStart(c)
        /\ MonthsSinceStart(c) <= MonthsSinceStart(expiry.monthAt)}

\* C10: the result of isExpiryValid is the result of the expiry rule at one
\* single instant lying within the call, also when the clock crosses a month or
\* year boundary during the call
C10_ExpiryAtOneInstant ==
    expiry.pc = "returned" =>
        \E c \in InstantsOfCall :
            expiry.ret = isExpiryValid(expiry.month, expiry.year, c.year, c.month)

-----------------------------------------------------------------------------
(* Properties of the request handler (Spec, FairSpec) *)

\* the request was routed as a card query: the response object was built
Routed == response # NoResponse

\* the path of the request: its URL from the path on, up to a query or fragment
RequestPath == SubSeq(request.url.rest, 1, FirstIndexOf(request.url.rest, {63, 35}) - 1)

\* the path has exactly five non-empty segments, the first of them cardinfo: a
\* segment starts at each character that is no slash and follows a slash or
\* nothing
FiveSegmentsFromCardinfo(path) ==
    LET starts == {i \in 1..Len(path) : path[i] # 47 /\ (i = 1 \/ path[i - 1] = 47)}
    IN  /\ Cardinality(starts) = 5
        /\ \E i \in starts :
              /\ \A j \in starts : i <= j
              /\ Len(path) >= i + 7
              /\ SubSeq(path, i, i + 7) = CARDINFO
              /\ (Len(path) = i + 7 \/ path[i + 8] = 47)

\* C4: when the checksum check or the expiry check of a routed card query
\* fails, no outbound lookup is ever issued and the response is a 400 with
\* card_info null, status "error" and both computed booleans in validation
C4_FailedValidationIs400 ==
    (/\ Routed
     /\ \/ ~luhnCheck(response.request.cardNumber)
        \/ expiry.pc = "returned" /\ ~expiry.ret)
        => /\ lookups = 0
           /\ promise = NoPromise
           /\ upstream = NoUpstream
           /\ pc = "done" =>
                 /\ httpRes.heads = 1
                 /\ httpRes.statusCode = 400
                 /\ httpRes.body.card_info = Null
                 /\ httpRes.body.status = "error"
                 /\ DOMAIN httpRes.body.validation = {"luhn_valid", "expiry_valid"}
                 /\ httpRes.body.validation.luhn_valid
                        = luhnCheck(response.request.cardNumber)
                 /\ expiry.pc = "returned"
                 /\ httpRes.body.validation.expiry_valid = expiry.ret

\* a 400 was sent for a card whose checksum and expiry both failed
C4_Witness ==
    /\ pc = "done"
    /\ httpRes.statusCode = 400
    /\ response.request.cardNumber = InvalidCard
    /\ httpRes.body.validation.luhn_valid = FALSE
    /\ httpRes.body.validation.expiry_valid = FALSE
    /\ lookups = 0

\* C5: a request is a card query only when its path has exactly five non-empty
\* segments starting with cardinfo; any other request gets the fixed 404 body
\* {status, message, example}, and neither validation nor lookup is performed
C5_UnknownRouteIs404 ==
    pc # "idle" =>
        /\ Routed => FiveSegmentsFromCardinfo(RequestPath)
        /\ ~FiveSegmentsFromCardinfo(RequestPath) =>
              /\ pc = "done"
              /\ httpRes.heads = 1 /\ httpRes.ends = 1
              /\ httpRes.statusCode = 404
              /\ DOMAIN httpRes.body = {"status", "message", "example"}
              /\ httpRes.body.status = "error"
              /\ httpRes.body.message = MsgNotFound
              /\ httpRes.body.example = UsageExample
              /\ response = NoResponse
              /\ expiry = ExpiryIdle
              /\ lookups = 0
              /\ promise = NoPromise

\* the message the failure of a lookup carries
FailureMessage(first) ==
    IF first.event = "error" THEN MsgTransport
    ELSE IF first.statusCode = 200 THEN MsgParse
    ELSE IF first.statusCode = 404 THEN MsgBinNotFound
    ELSE MsgUpstreamStatus \o StatusText(first.statusCode)

\* the status the outcome of a lookup determines
StatusOfLookup(first) ==
    IF first.event = "end" /\ first.statusCode = 200 /\ first.data # Unparseable THEN 200
    ELSE IF first.event = "end" /\ first.statusCode = 404 THEN 404
    ELSE 500

\* C6: for a card query that passed both validations the response status is
\* 200 when the upstream replied 200 with any parseable body, 404 when it
\* replied 404, 500 otherwise; in every failure card_info is null and the
\* message is the one the failure carries
C6_StatusFollowsLookup ==
    (/\ pc = "done"
     /\ Routed
     /\ response.validation.luhn_valid
     /\ response.validation.expiry_valid) =>
        /\ lookups = 1
        /\ httpRes.statusCode = StatusOfLookup(upstream.first)
        /\ httpRes.statusCode # 200 =>
              /\ httpRes.body.card_info = Null
              /\ httpRes.body.message = FailureMessage(upstream.first)

\* where the upstream reply holds the counterpart of a leaf of card_info
UpstreamPath(leaf) ==
    CASE leaf = "number_details.length" -> <<"number", "length">>
      [] leaf = "number_details.luhn_check_status" -> <<"number", "luhn">>
      [] leaf = "country.name" -> <<"country", "name">>
      [] leaf = "country.alpha2" -> <<"country", "alpha2">>
      [] leaf = "country.numeric" -> <<"country", "numeric">>
      [] leaf = "country.currency" -> <<"country", "currency">>
      [] leaf = "country.emoji" -> <<"country", "emoji">>
      [] leaf = "country.coordinates.latitude" -> <<"country", "latitude">>
      [] leaf = "country.coordinates.longitude" -> <<"country", "longitude">>
      [] leaf = "bank.name" -> <<"bank", "name">>
      [] leaf = "bank.url" -> <<"bank", "url">>
      [] leaf = "bank.phone_sac" -> <<"bank", "phone">>
      [] leaf = "bank.city" -> <<"bank", "city">>
      [] OTHER -> <<leaf>>

\* the value at a path of a JavaScript value, Undefined where there is none
RECURSIVE ValueAt(_, _)
ValueAt(v, path) ==
    IF Len(path) = 0 THEN v
    ELSE IF v.t = "object" /\ path[1] \in DOMAIN v.o THEN ValueAt(v.o[path[1]], Tail(path))
    ELSE Undefined

CardInfoLeafPaths ==
    {"scheme", "brand", "type", "prepaid",
     "number_details.length", "number_details.luhn_check_status",
     "country.name", "country.alpha2", "country.numeric", "country.currency",
     "country.emoji", "country.coordinates.latitude", "country.coordinates.longitude",
     "bank.name", "bank.url", "bank.phone_sac", "bank.city"}

\* C7: in every 200 response every leaf of card_info is in the serialized body,
\* and each leaf whose upstream counterpart is absent carries 'N/A'
C7_AbsentFieldsAreNA ==
    (pc = "done" /\ httpRes.statusCode = 200) =>
        \A leaf \in CardInfoLeafPaths :
            /\ leaf \in DOMAIN httpRes.body.card_info
            /\ ValueAt(promise.value, UpstreamPath(leaf)) = Undefined
                  => httpRes.body.card_info[leaf] = Str("N/A")

\* C8: in every response to a routed card query HTTP 200, status "success" and
\* a non-null card_info go together, and with them both validations are true;
\* any other HTTP status has status "error" and card_info null
C8_SuccessFieldsAgree ==
    (Routed /\ httpRes.ends > 0) =>
        LET ok == httpRes.statusCode = 200
        IN  /\ ok <=> httpRes.body.status = "success"
            /\ ok <=> httpRes.body.card_info # Null
            /\ ok => /\ httpRes.body.validation.luhn_valid
                     /\ httpRes.body.validation.expiry_valid
            /\ ~ok => /\ httpRes.body.status = "error"
                      /\ httpRes.body.card_info = Null

\* the handler has stopped: it ran to its end or threw
Stopped == pc \in {"done", "threw"}

\* C9: every request is answered exactly once: one head and one body are
\* written and the handler stops, the promise is settled at most once whatever
\* upstream events occur and in whatever order, and the response is eventually
\* written unless the handler waits for ever for an outbound call that neither
\* ends nor fails
C9_AnsweredExactlyOnce ==
    /\ [](/\ httpRes.heads <= 1 /\ httpRes.ends <= 1
          /\ Stopped <=> (httpRes.heads = 1 /\ httpRes.ends = 1))
    /\ [][/\ promise.state \in {"fulfilled", "rejected"} => promise' = promise
          /\ Stopped => (pc' = pc /\ httpRes' = httpRes)]_vars
    /\ \/ <>[](pc = "await" /\ upstream.first.event = "none")
       \/ (pc # "idle") ~> (httpRes.heads = 1 /\ httpRes.ends = 1)

====
